---------------------------- MODULE Spec2Model ----------------------------
(***************************************************************************)
(* Ascon-AEAD128 reference encryption (ascon128.py) driven the way the KAT *)
(* harness (test_ascon_kats.py) drives it.                                 *)
(*                                                                         *)
(* A Python integer is modelled as the set of the positions of its 1 bits  *)
(* (bit 0 is the least significant), so words keep all 64 bits and the     *)
(* unbounded integers K and N keep every bit the caller supplied.  A byte  *)
(* is a number 0..255, a bytes object a sequence of bytes, a bitstring a   *)
(* sequence of 0/1 (the characters '0'/'1').                               *)
(***************************************************************************)
EXTENDS Integers, Sequences, FiniteSets, TLC

VARIABLES
    key, nonce, ad, pt,     \* harness: the record's Key, Nonce, AD, PT bytes
    K, N,                   \* harness: int.from_bytes(key/nonce, "big")
    A_bits, P_bits,         \* ascon_aead128_enc: the inputs as bitstrings
    State,                  \* the five words S0..S4
    pc,                     \* position in the call
    rounds, i, ret,         \* ascon_permutation: its argument, loop index, caller
    consts,                 \* history: round constants XORed in the current call
    A_blocks, a_idx,        \* process_associated_data: blocks and loop position
    P_blocks, p_idx, l,     \* process_plaintext: blocks, loop position, len of last
    last_block_padded,      \* process_plaintext: pad(P_blocks[-1])
    C, T,                   \* outputs: ciphertext blocks, tag
    trace                   \* history: the steps taken, in order

vars == <<key, nonce, ad, pt, K, N, A_bits, P_bits, State, pc, rounds, i, ret,
          consts, A_blocks, a_idx, P_blocks, p_idx, l, last_block_padded,
          C, T, trace>>

---------------------------------------------------------------------------
(* Bounds of the model *)

\* Largest number of whole 16-byte blocks in AD and in PT.
MaxBlocks == 1

\* Number of bytes of AD / PT beyond the whole blocks.
Tails == {0, 1, 15}

---------------------------------------------------------------------------
(* Integers as bit sets *)

Pow2(n) == 2 ^ n

MASK64 == 0 .. 63

XOR(a, b) == (a \ b) \cup (b \ a)

Shr(a, n) == {b - n : b \in {x \in a : x >= n}}

Shl(a, n) == {b + n : b \in a}

Bit(a, k) == IF k \in a THEN 1 ELSE 0

\* x >> 64 without the 64-bit mask.
Upper64_unmasked(x) == Shr(x, 64)

\* (x >> 64) & 0xFFFFFFFFFFFFFFFF
Upper64(x) == Shr(x, 64) \cap MASK64

\* x & 0xFFFFFFFFFFFFFFFF
Lower64(x) == x \cap MASK64

\* The bits of a byte value 0..255.
ByteBits(b) == {j \in 0 .. 7 : (b \div Pow2(j)) % 2 = 1}

RECURSIVE SumPow2(_)
SumPow2(s) == IF s = {} THEN 0
              ELSE LET x == CHOOSE y \in s : TRUE IN Pow2(x) + SumPow2(s \ {x})

\* The byte value of a set of bits within 0..7.
ByteVal(s) == SumPow2(s)

\* int.from_bytes(b, "big")
int_from_bytes_big(b) ==
    UNION {Shl(ByteBits(b[m]), 8 * (Len(b) - m)) : m \in 1 .. Len(b)}

\* x.to_bytes(n, "big") raises OverflowError when x does not fit n bytes.
to_bytes_overflows(x, n) == \E b \in x : b >= 8 * n

\* x.to_bytes(n, "big") when it fits.
to_bytes_big(x, n) ==
    [m \in 1 .. n |-> ByteVal(Shr(x, 8 * (n - m)) \cap (0 .. 7))]

\* int(block, 2): the first character is the most significant bit.
int_base2(block) ==
    {Len(block) - m : m \in {x \in 1 .. Len(block) : block[x] = 1}}

---------------------------------------------------------------------------
(* Helper functions of ascon128.py *)

RECURSIVE bytes_to_bits(_)
bytes_to_bits(b) ==
    IF b = <<>> THEN <<>>
    ELSE [m \in 1 .. 8 |-> Bit(ByteBits(Head(b)), 8 - m)] \o bytes_to_bits(Tail(b))

Zeros(n) == [m \in 1 .. n |-> 0]

pad(X, r) ==
    LET pad_len == r - (Len(X) % r)
    IN  X \o <<1>> \o Zeros(pad_len - 1)

parse_input(X, r) ==
    LET n == Len(X) \div r
    IN  [m \in 1 .. n |-> SubSeq(X, (m - 1) * r + 1, m * r)]
        \o <<SubSeq(X, n * r + 1, Len(X))>>

\* The 16 round constants 0x3C, 0x2D, 0x1E, 0x0F, 0xF0, 0xE1, 0xD2, 0xC3, 0xB4,
\* 0xA5, 0x96, 0x87, 0x78, 0x69, 0x5A, 0x4B, as byte values.
CONST_bytes == <<60, 45, 30, 15, 240, 225, 210, 195, 180, 165, 150, 135, 120,
                 105, 90, 75>>

CONST == [m \in 1 .. 16 |-> ByteBits(CONST_bytes[m])]

\* The table read from entry 12 - rnd + i instead.
get_round_constant_shifted(rnd, idx) == CONST[(12 - rnd + idx) + 1]

\* CONST[16 - rnd + i] with Python's 0-based index.
get_round_constant(rnd, idx) == CONST[(16 - rnd + idx) + 1]

BAnd(a, b) == a * b

BXor(a, b) == (a + b) % 2

RECURSIVE XorAll(_)
XorAll(s) == IF s = <<>> THEN 0 ELSE BXor(Head(s), XorAll(Tail(s)))

\* The S-box with the constant 1 of result[2] left out.
s_box_compute_without_one(X) ==
    LET result ==
          [j \in 0 .. 4 |->
             CASE j = 0 -> XorAll(<<BAnd(X[4], X[1]), X[3], BAnd(X[2], X[1]), X[2],
                                    BAnd(X[1], X[0]), X[1], X[0]>>)
               [] j = 1 -> XorAll(<<X[4], BAnd(X[3], X[2]), BAnd(X[3], X[1]), X[3],
                                    BAnd(X[2], X[1]), X[2], X[1], X[0]>>)
               [] j = 2 -> XorAll(<<BAnd(X[4], X[3]), X[4], X[2], X[1]>>)
               [] j = 3 -> XorAll(<<BAnd(X[4], X[0]), X[4], BAnd(X[3], X[0]), X[3],
                                    X[2], X[1], X[0]>>)
               [] j = 4 -> XorAll(<<BAnd(X[4], X[1]), X[4], X[3], BAnd(X[1], X[0]),
                                    X[1]>>)]
    IN  [j \in 0 .. 4 |-> result[j] % 2]

\* X is indexed 0..4; & binds tighter than ^ in Python.
s_box_compute(X) ==
    LET result ==
          [j \in 0 .. 4 |->
             CASE j = 0 -> XorAll(<<BAnd(X[4], X[1]), X[3], BAnd(X[2], X[1]), X[2],
                                    BAnd(X[1], X[0]), X[1], X[0]>>)
               [] j = 1 -> XorAll(<<X[4], BAnd(X[3], X[2]), BAnd(X[3], X[1]), X[3],
                                    BAnd(X[2], X[1]), X[2], X[1], X[0]>>)
               [] j = 2 -> XorAll(<<BAnd(X[4], X[3]), X[4], X[2], X[1], 1>>)
               [] j = 3 -> XorAll(<<BAnd(X[4], X[0]), X[4], BAnd(X[3], X[0]), X[3],
                                    X[2], X[1], X[0]>>)
               [] j = 4 -> XorAll(<<BAnd(X[4], X[1]), X[4], X[3], BAnd(X[1], X[0]),
                                    X[1]>>)]
    IN  [j \in 0 .. 4 |-> result[j] % 2]

rotr(val, r) ==
    LET r2 == r % 64
    IN  (Shr(val, r2) \cup (Shl(val, 64 - r2) \cap MASK64)) \cap MASK64

linear_diffusion_layer(S) ==
    [j \in 0 .. 4 |->
       CASE j = 0 -> XOR(XOR(S[0], rotr(S[0], 19)), rotr(S[0], 28)) \cap MASK64
         [] j = 1 -> XOR(XOR(S[1], rotr(S[1], 61)), rotr(S[1], 39)) \cap MASK64
         [] j = 2 -> XOR(XOR(S[2], rotr(S[2], 1)), rotr(S[2], 6)) \cap MASK64
         [] j = 3 -> XOR(XOR(S[3], rotr(S[3], 10)), rotr(S[3], 17)) \cap MASK64
         [] j = 4 -> XOR(XOR(S[4], rotr(S[4], 7)), rotr(S[4], 41)) \cap MASK64]

\* One column of the S-box layer: bit k of every word is cleared and set again.
\* (A bound variable holds a computed value, so each step is computed once.)
SboxColumn(S, k) ==
    CHOOSE R \in {[j \in 0 .. 4 |->
                     (S[j] \ {k}) \cup (IF S_box_output[j] % 2 = 1 THEN {k} ELSE {})] :
                  S_box_output \in {s_box_compute(S_box_input) :
                                    S_box_input \in {[j \in 0 .. 4 |-> Bit(S[j], k)]}}} :
        TRUE

\* for k in range(lo, hi): the columns lo .. hi - 1 in ascending order (the
\* range is halved so that the evaluation nests 6 deep instead of 64).
RECURSIVE SboxRange(_, _, _)
SboxRange(S, lo, hi) ==
    IF hi - lo = 1 THEN SboxColumn(S, lo)
    ELSE CHOOSE R \in {SboxRange(S1, lo + (hi - lo) \div 2, hi) :
                       S1 \in {SboxRange(S, lo, lo + (hi - lo) \div 2)}} : TRUE

\* for k in range(64)
SboxLayer(S) == SboxRange(S, 0, 64)

\* One iteration of ascon_permutation's loop, with rc the round constant.
Round(S, rc) ==
    CHOOSE R \in {linear_diffusion_layer(S2) :
                  S2 \in {SboxLayer(S1) : S1 \in {[S EXCEPT ![2] = XOR(@, rc)]}}} :
        TRUE

\* ascon_permutation(S, rnds) from round idx on.
RECURSIVE PermFrom(_, _, _)
PermFrom(S, rnds, idx) ==
    IF idx >= rnds THEN S
    ELSE CHOOSE R \in {PermFrom(S1, rnds, idx + 1) :
                       S1 \in {Round(S, get_round_constant(rnds, idx))}} : TRUE

ascon_permutation(S, rnds) == PermFrom(S, rnds, 0)

\* IV = 0x00001000808C0001
IV == int_from_bytes_big(<<0, 0, 16, 0, 128, 140, 0, 1>>)

---------------------------------------------------------------------------
(* Inputs: the records the harness feeds to ascon_aead128_enc *)

\* Key = 000102030405060708090A0B0C0D0E0F
KATKey == [m \in 1 .. 16 |-> m - 1]

\* Nonce = 101112131415161718191A1B1C1D1E1F
KATNonce == [m \in 1 .. 16 |-> 15 + m]

\* A 17-byte key (A5 before the KAT key) and a 15-byte nonce (the KAT nonce
\* without its last byte).
LongKey == <<165>> \o KATKey

ShortNonce == SubSeq(KATNonce, 1, 15)

KeyNoncePairs ==
    {<<KATKey, KATNonce>>, <<LongKey, KATNonce>>, <<KATKey, ShortNonce>>}

Lens == {16 * b + t : b \in 0 .. MaxBlocks, t \in Tails}

\* AD = 30 31 32 ..., PT = 20 21 22 ... as in the KAT records.
ADBytes(n) == [m \in 1 .. n |-> (48 + m - 1) % 256]

PTBytes(n) == [m \in 1 .. n |-> (32 + m - 1) % 256]

ZeroState == [j \in 0 .. 4 |-> {}]

Init ==
    /\ \E kn \in KeyNoncePairs : key = kn[1] /\ nonce = kn[2]
    /\ \E n \in Lens : ad = ADBytes(n)
    /\ \E n \in Lens : pt = PTBytes(n)
    /\ K = {} /\ N = {}
    /\ A_bits = <<>> /\ P_bits = <<>>
    /\ State = ZeroState
    /\ pc = "start"
    /\ rounds = 0 /\ i = 0 /\ ret = ""
    /\ consts = <<>>
    /\ A_blocks = <<>> /\ a_idx = 0
    /\ P_blocks = <<>> /\ p_idx = 0 /\ l = 0
    /\ last_block_padded = <<>>
    /\ C = <<>> /\ T = <<>>
    /\ trace = <<>>

---------------------------------------------------------------------------
(* Steps *)

\* run_kats: K and N as big-endian integers, then the call.
Harness ==
    /\ pc = "start"
    /\ K' = int_from_bytes_big(key)
    /\ N' = int_from_bytes_big(nonce)
    /\ pc' = "enc"
    /\ UNCHANGED <<key, nonce, ad, pt, A_bits, P_bits, State, rounds, i, ret,
                   consts, A_blocks, a_idx, P_blocks, p_idx, l,
                   last_block_padded, C, T, trace>>

\* ascon_aead128_enc up to ascon_initialize's call of ascon_permutation(State, 12).
EncStart ==
    /\ pc = "enc"
    /\ A_bits' = bytes_to_bits(ad)
    /\ P_bits' = bytes_to_bits(pt)
    /\ State' = [j \in 0 .. 4 |->
                   CASE j = 0 -> IV
                     [] j = 1 -> Upper64(K)
                     [] j = 2 -> Lower64(K)
                     [] j = 3 -> Upper64(N)
                     [] j = 4 -> Lower64(N)]
    /\ rounds' = 12 /\ i' = 0 /\ ret' = "init" /\ consts' = <<>>
    /\ pc' = "perm"
    /\ trace' = Append(trace, <<"load", 0>>)
    /\ UNCHANGED <<key, nonce, ad, pt, K, N, A_blocks, a_idx, P_blocks, p_idx, l,
                   last_block_padded, C, T>>

\* One iteration of ascon_permutation's loop; after the last one, the return.
PermRound ==
    /\ pc = "perm"
    /\ i < rounds
    /\ State' = Round(State, get_round_constant(rounds, i))
    /\ consts' = Append(consts, get_round_constant(rounds, i))
    /\ i' = i + 1
    /\ IF i + 1 = rounds
       THEN pc' = ret /\ trace' = Append(trace, <<"perm", i + 1>>)
       ELSE pc' = "perm" /\ trace' = trace
    /\ UNCHANGED <<key, nonce, ad, pt, K, N, A_bits, P_bits, rounds, ret,
                   A_blocks, a_idx, P_blocks, p_idx, l, last_block_padded, C, T>>

\* ascon_initialize after the permutation: S3, S4 ^= K, return.
InitKeyXor ==
    /\ pc = "init"
    /\ State' = [State EXCEPT ![3] = XOR(@, Upper64(K)),
                              ![4] = XOR(@, Lower64(K))]
    /\ pc' = "ad"
    /\ trace' = Append(trace, <<"init_key_xor", 0>>)
    /\ UNCHANGED <<key, nonce, ad, pt, K, N, A_bits, P_bits, rounds, i, ret,
                   consts, A_blocks, a_idx, P_blocks, p_idx, l,
                   last_block_padded, C, T>>

\* The bit that domain separation flips: State[4] ^= 1.
DomSepBit == {0}

\* process_associated_data, len(A) == 0: domain separation and return.
ADEmpty ==
    /\ pc = "ad"
    /\ Len(A_bits) = 0
    /\ State' = [State EXCEPT ![4] = XOR(@, DomSepBit)]
    /\ pc' = "pt"
    /\ trace' = Append(trace, <<"domsep", 0>>)
    /\ UNCHANGED <<key, nonce, ad, pt, K, N, A_bits, P_bits, rounds, i, ret,
                   consts, A_blocks, a_idx, P_blocks, p_idx, l,
                   last_block_padded, C, T>>

\* process_associated_data, len(A) > 0: split into blocks, pad the last.
ADParse ==
    /\ pc = "ad"
    /\ Len(A_bits) # 0
    /\ LET blocks == parse_input(A_bits, 128)
       IN  A_blocks' = [blocks EXCEPT ![Len(blocks)] = pad(@, 128)]
    /\ a_idx' = 1
    /\ pc' = "ad_loop"
    /\ UNCHANGED <<key, nonce, ad, pt, K, N, A_bits, P_bits, State, rounds, i,
                   ret, consts, P_blocks, p_idx, l, last_block_padded, C, T,
                   trace>>

\* The loop body with the lower half of the block XORed into State[2].
ADAbsorb_into_capacity ==
    /\ pc = "ad_loop"
    /\ a_idx <= Len(A_blocks)
    /\ LET block_int == int_base2(A_blocks[a_idx])
       IN  State' = [State EXCEPT ![0] = XOR(@, Upper64(block_int)),
                                  ![2] = XOR(@, Lower64(block_int))]
    /\ a_idx' = a_idx + 1
    /\ rounds' = 8 /\ i' = 0 /\ ret' = "ad_loop" /\ consts' = <<>>
    /\ pc' = "perm"
    /\ trace' = Append(trace, <<"absorb_ad", a_idx>>)
    /\ UNCHANGED <<key, nonce, ad, pt, K, N, A_bits, P_bits, A_blocks, P_blocks,
                   p_idx, l, last_block_padded, C, T>>

\* Loop body: XOR the block into S0, S1 and call ascon_permutation(State, 8).
ADAbsorb ==
    /\ pc = "ad_loop"
    /\ a_idx <= Len(A_blocks)
    /\ LET block_int == int_base2(A_blocks[a_idx])
       IN  State' = [State EXCEPT ![0] = XOR(@, Upper64(block_int)),
                                  ![1] = XOR(@, Lower64(block_int))]
    /\ a_idx' = a_idx + 1
    /\ rounds' = 8 /\ i' = 0 /\ ret' = "ad_loop" /\ consts' = <<>>
    /\ pc' = "perm"
    /\ trace' = Append(trace, <<"absorb_ad", a_idx>>)
    /\ UNCHANGED <<key, nonce, ad, pt, K, N, A_bits, P_bits, A_blocks, P_blocks,
                   p_idx, l, last_block_padded, C, T>>

\* After the loop: domain separation and return.
ADDomSep ==
    /\ pc = "ad_loop"
    /\ a_idx > Len(A_blocks)
    /\ State' = [State EXCEPT ![4] = XOR(@, DomSepBit)]
    /\ pc' = "pt"
    /\ trace' = Append(trace, <<"domsep", 0>>)
    /\ UNCHANGED <<key, nonce, ad, pt, K, N, A_bits, P_bits, rounds, i, ret,
                   consts, A_blocks, a_idx, P_blocks, p_idx, l,
                   last_block_padded, C, T>>

\* process_plaintext: split into blocks, remember the last block's length.
PTParse ==
    /\ pc = "pt"
    /\ P_blocks' = parse_input(P_bits, 128)
    /\ l' = Len(P_blocks'[Len(P_blocks')])
    /\ p_idx' = 1
    /\ C' = <<>>
    /\ pc' = "pt_loop"
    /\ UNCHANGED <<key, nonce, ad, pt, K, N, A_bits, P_bits, State, rounds, i,
                   ret, consts, A_blocks, a_idx, last_block_padded, T, trace>>

\* The lower half of ct_int taken from State[2].
ct_int_of_capacity(S) == Shl(S[0], 64) \cup S[2]

\* ct_int = (State[0] << 64) | State[1]
ct_int_of(S) == Shl(S[0], 64) \cup S[1]

\* The loop over every block, the last one too.
AllBlockCount(blocks) == Len(blocks)

\* The number of blocks in P_blocks[:-1].
FullBlockCount(blocks) == Len(blocks) - 1

\* Loop body over P_blocks[:-1]: XOR, emit 16 bytes, ascon_permutation(State, 8).
PTFull ==
    /\ pc = "pt_loop"
    /\ p_idx <= FullBlockCount(P_blocks)
    /\ LET block_int == int_base2(P_blocks[p_idx])
           S1        == [State EXCEPT ![0] = XOR(@, Upper64(block_int)),
                                      ![1] = XOR(@, Lower64(block_int))]
           ct_int    == ct_int_of(S1)
       IN  /\ State' = S1
           /\ IF to_bytes_overflows(ct_int, 16)
              THEN /\ pc' = "raised"
                   /\ UNCHANGED <<C, rounds, i, ret, consts, trace>>
              ELSE /\ C' = Append(C, to_bytes_big(ct_int, 16))
                   /\ rounds' = 8 /\ i' = 0 /\ ret' = "pt_loop" /\ consts' = <<>>
                   /\ pc' = "perm"
                   /\ trace' = trace \o <<(<<"absorb_pt", p_idx>>), <<"emit", 16>>>>
    /\ p_idx' = p_idx + 1
    /\ UNCHANGED <<key, nonce, ad, pt, K, N, A_bits, P_bits, A_blocks, a_idx,
                   P_blocks, l, last_block_padded, T>>

\* The last ciphertext block left at its full 16 bytes.
last_len_bytes_untruncated(len_bits) == 16

\* last_len_bytes = l // 8
last_len_bytes_of(len_bits) == len_bits \div 8

\* The last block: pad, XOR, emit truncated to |P_n| when l > 0, return.
PTLast ==
    /\ pc = "pt_loop"
    /\ p_idx > FullBlockCount(P_blocks)
    /\ LET last_bits      == P_blocks[Len(P_blocks)]
           padded         == pad(last_bits, 128)
           last_block_int == int_base2(padded)
           S1 == [State EXCEPT ![0] = XOR(@, Upper64(last_block_int)),
                               ![1] = XOR(@, Lower64(last_block_int))]
           ct_int == ct_int_of(S1)
       IN  /\ last_block_padded' = padded
           /\ State' = S1
           /\ IF l > 0
              THEN IF to_bytes_overflows(ct_int, 16)
                   THEN pc' = "raised" /\ UNCHANGED <<C, trace>>
                   ELSE /\ C' = Append(C, SubSeq(to_bytes_big(ct_int, 16), 1,
                                                  last_len_bytes_of(l)))
                        /\ pc' = "finalize"
                        /\ trace' = trace \o <<(<<"absorb_pt", p_idx>>),
                                                <<"emit", Len(C'[Len(C')])>>>>
              ELSE /\ C' = C
                   /\ pc' = "finalize"
                   /\ trace' = Append(trace, <<"absorb_pt", p_idx>>)
    /\ UNCHANGED <<key, nonce, ad, pt, K, N, A_bits, P_bits, rounds, i, ret,
                   consts, A_blocks, a_idx, P_blocks, p_idx, l, T>>

\* finalize: S2, S3 ^= K, then ascon_permutation(State, 12).
FinalizeKeyXor ==
    /\ pc = "finalize"
    /\ State' = [State EXCEPT ![2] = XOR(@, Upper64(K)),
                              ![3] = XOR(@, Lower64(K))]
    /\ rounds' = 12 /\ i' = 0 /\ ret' = "tag" /\ consts' = <<>>
    /\ pc' = "perm"
    /\ trace' = Append(trace, <<"final_key_xor", 0>>)
    /\ UNCHANGED <<key, nonce, ad, pt, K, N, A_bits, P_bits, A_blocks, a_idx,
                   P_blocks, p_idx, l, last_block_padded, C, T>>

\* The upper key half XORed into S3 without the 64-bit mask.
TagKeyUpper_unmasked(k) == Shr(k, 64)

\* (K >> 64) & 0xFFFFFFFFFFFFFFFF in T0
TagKeyUpper(k) == Upper64(k)

\* finalize after the permutation: T = (S3 ^ K_hi) || (S4 ^ K_lo) as 16 bytes;
\* ascon_aead128_enc returns C, T.
FinalizeTag ==
    /\ pc = "tag"
    /\ LET T0    == XOR(State[3], TagKeyUpper(K))
           T1    == XOR(State[4], Lower64(K))
           T_int == Shl(T0, 64) \cup T1
       IN  IF to_bytes_overflows(T_int, 16)
           THEN pc' = "raised" /\ UNCHANGED <<T, trace>>
           ELSE /\ T' = to_bytes_big(T_int, 16)
                /\ pc' = "done"
                /\ trace' = Append(trace, <<"tag", Len(T')>>)
    /\ UNCHANGED <<key, nonce, ad, pt, K, N, A_bits, P_bits, State, rounds, i,
                   ret, consts, A_blocks, a_idx, P_blocks, p_idx, l,
                   last_block_padded, C>>

Next ==
    \/ Harness
    \/ EncStart
    \/ PermRound
    \/ InitKeyXor
    \/ ADEmpty
    \/ ADParse
    \/ ADAbsorb
    \/ ADDomSep
    \/ PTParse
    \/ PTFull
    \/ PTLast
    \/ FinalizeKeyXor
    \/ FinalizeTag

Spec == Init /\ [][Next]_vars

---------------------------------------------------------------------------
(* Outputs as the harness reads them *)

RECURSIVE Join(_)
Join(blocks) == IF blocks = <<>> THEN <<>> ELSE Head(blocks) \o Join(Tail(blocks))

---------------------------------------------------------------------------
(* C1: KAT conformance *)

\* Count = 1 of the Ascon-AEAD128 KAT set: Key = 000102..0F, Nonce = 101112..1F,
\* PT and AD empty, CT = 4F9C278211BEC9316BF68F46EE8B2EC6.
KAT1_CT == <<79, 156, 39, 130, 17, 190, 201, 49, 107, 246, 143, 70, 238, 139, 46, 198>>

IsKAT1 == key = KATKey /\ nonce = KATNonce /\ ad = <<>> /\ pt = <<>>

\* C1: for a KAT record the joined ciphertext blocks equal the record's CT
\* without its last 16 bytes and the tag equals those last 16 bytes.
C1_KatConformance ==
    (pc = "done" /\ IsKAT1) =>
        /\ Join(C) = SubSeq(KAT1_CT, 1, Len(KAT1_CT) - 16)
        /\ T = SubSeq(KAT1_CT, Len(KAT1_CT) - 15, Len(KAT1_CT))

---------------------------------------------------------------------------
(* C3: length preservation *)

\* C3: the ciphertext returned has exactly len(PT) bytes.
C3_LengthPreservation == pc = "done" => Len(Join(C)) = Len(pt)

\* A 16-byte plaintext returned as one 16-byte block, nothing for the
\* padding-only final block.
C3_Witness == pc = "done" /\ Len(pt) = 16 /\ Len(C) = 1 /\ Len(Join(C)) = 16

---------------------------------------------------------------------------
(* C4: tag size *)

\* C4: the call never fails converting the tag and the tag returned has
\* exactly 16 bytes.
C4_TagSize == pc # "raised" /\ (pc = "done" => Len(T) = 16)

\* A tag returned for a key integer wider than 128 bits.
C4_Witness == pc = "done" /\ Len(T) = 16 /\ \E b \in K : b >= 128

---------------------------------------------------------------------------
(* C5: input-size violation *)

\* C5: with a key or nonce that is not 16 bytes no ciphertext and no tag is
\* ever produced.
C5_InputSizeError ==
    (Len(key) # 16 \/ Len(nonce) # 16) => (C = <<>> /\ T = <<>>)

---------------------------------------------------------------------------
(* C7: round-constant offset *)

\* C7 as claimed: a 12-round call starts at table entry 0 (0x3C), an 8-round
\* call at table entry 4 (0xF0), later rounds take the following entries.
C7_OffsetAsClaimed ==
    \A m \in 1 .. Len(consts) :
        /\ rounds = 12 => consts[m] = CONST[0 + m]
        /\ rounds = 8 => consts[m] = CONST[4 + m]

\* C7 amended: a 12-round call starts at table entry 4 (0xF0), an 8-round call
\* at table entry 8 (0xB4), later rounds take the following entries.
C7_RoundConstants ==
    /\ rounds \in {0, 8, 12}
    /\ \A m \in 1 .. Len(consts) :
           /\ rounds = 12 => consts[m] = CONST[4 + m]
           /\ rounds = 8 => consts[m] = CONST[8 + m]
    /\ (Len(consts) >= 1 /\ rounds = 12) => consts[1] = ByteBits(240)
    /\ (Len(consts) >= 1 /\ rounds = 8) => consts[1] = ByteBits(180)

\* An 8-round call that has run all its rounds.
C7_Witness == rounds = 8 /\ Len(consts) = 8 /\ pc # "perm"

---------------------------------------------------------------------------
(* C6: domain separation *)

\* The step with which process_associated_data returns.
ADReturns == pc \in {"ad", "ad_loop"} /\ pc' = "pt"

\* C6: the step that ends AD processing, with or without AD, changes the state
\* by S4 ^= (1 << 63) and by nothing else.
C6_DomainSeparation ==
    [][ADReturns => State' = [State EXCEPT ![4] = XOR(@, {63})]]_vars

---------------------------------------------------------------------------
(* C8: padding rule *)

\* A byte-aligned bitstring read back as bytes, most significant bit first.
BitsToBytes(X) ==
    [m \in 1 .. Len(X) \div 8 |->
        ByteVal(int_base2(SubSeq(X, 8 * (m - 1) + 1, 8 * m)))]

\* The bytes of b after its whole 16-byte blocks.
Remainder(b) == SubSeq(b, 16 * (Len(b) \div 16) + 1, Len(b))

\* The remaining bytes, one byte 0x01, zero bytes up to 16 bytes.
PaddedAsClaimed(b) ==
    Remainder(b) \o <<1>> \o [m \in 1 .. 15 - Len(Remainder(b)) |-> 0]

\* C8: the padded final block of PT, and of a non-empty AD, is the remaining
\* input bytes, one byte 0x01 and zero bytes up to 16 bytes; with it the
\* padded input has 16 * (len \div 16 + 1) bytes.
C8_PaddingRule ==
    /\ pc \in {"finalize", "tag", "done"} =>
          /\ BitsToBytes(last_block_padded) = PaddedAsClaimed(pt)
          /\ Len(P_blocks) = Len(pt) \div 16 + 1
    /\ A_blocks # <<>> =>
          /\ BitsToBytes(A_blocks[Len(A_blocks)]) = PaddedAsClaimed(ad)
          /\ Len(A_blocks) = Len(ad) \div 16 + 1
          /\ \A m \in 1 .. Len(A_blocks) : Len(A_blocks[m]) = 128

---------------------------------------------------------------------------
(* C9: byte/lane codec *)

\* Byte j (0..7) of an 8-byte string in bits 8j..8j+7 of the lane.
LoadLE(b) == UNION {Shl(ByteBits(b[m]), 8 * (m - 1)) : m \in 1 .. Len(b)}

\* A lane serialized least-significant byte first.
StoreLE(w) == [m \in 1 .. 8 |-> ByteVal(Shr(w, 8 * (m - 1)) \cap (0 .. 7))]

\* C9: key and nonce halves are loaded into S1..S4 little-endian, each emitted
\* ciphertext block is S0, S1 serialized little-endian, and the tag is
\* S3 ^ key half, S4 ^ key half serialized little-endian.
C9_LittleEndianCodec ==
    /\ (pc = "perm" /\ ret = "init" /\ i = 0 /\ Len(key) = 16 /\ Len(nonce) = 16) =>
          /\ State[1] = LoadLE(SubSeq(key, 1, 8))
          /\ State[2] = LoadLE(SubSeq(key, 9, 16))
          /\ State[3] = LoadLE(SubSeq(nonce, 1, 8))
          /\ State[4] = LoadLE(SubSeq(nonce, 9, 16))
    /\ (pc = "perm" /\ ret = "pt_loop" /\ i = 0) =>
          C[Len(C)] = StoreLE(State[0]) \o StoreLE(State[1])
    /\ (pc = "done" /\ Len(key) = 16) =>
          T = StoreLE(XOR(State[3], LoadLE(SubSeq(key, 1, 8))))
              \o StoreLE(XOR(State[4], LoadLE(SubSeq(key, 9, 16))))

---------------------------------------------------------------------------
(* C10: phase order and round counts *)

RECURSIVE Repeat(_, _, _)
\* The steps Step(b) for b = from .. to, in order.
Repeat(Step(_), from, to) ==
    IF from > to THEN <<>> ELSE Step(from) \o Repeat(Step, from + 1, to)

ADStep(b) == <<(<<"absorb_ad", b>>), <<"perm", 8>>>>

PTStep(b) == <<(<<"absorb_pt", b>>), <<"emit", 16>>, <<"perm", 8>>>>

\* The steps of one call for AD of na bytes and PT of np bytes.
ExpectedTrace(na, np) ==
    <<(<<"load", 0>>), <<"perm", 12>>, <<"init_key_xor", 0>>>>
    \o (IF na = 0 THEN <<>> ELSE Repeat(ADStep, 1, na \div 16 + 1))
    \o <<(<<"domsep", 0>>)>>
    \o Repeat(PTStep, 1, np \div 16)
    \o <<(<<"absorb_pt", np \div 16 + 1>>)>>
    \o (IF np % 16 = 0 THEN <<>> ELSE <<(<<"emit", np % 16>>)>>)
    \o <<(<<"final_key_xor", 0>>), <<"perm", 12>>, <<"tag", 16>>>>

IsPrefix(s, t) == Len(s) <= Len(t) /\ s = SubSeq(t, 1, Len(s))

\* C10: the steps of a call are, in this order and with nothing in between:
\* load and one 12-round permutation; for non-empty AD len(AD) \div 16 + 1
\* absorptions each followed by an 8-round permutation; the domain-separation
\* XOR; len(PT) \div 16 absorptions each followed by 16 emitted bytes and an
\* 8-round permutation; the final block's absorption with no permutation; the
\* key XOR, one 12-round permutation and the tag last.
C10_PhaseOrder ==
    /\ IsPrefix(trace, ExpectedTrace(Len(ad), Len(pt)))
    /\ pc = "done" => trace = ExpectedTrace(Len(ad), Len(pt))

\* A finished call with two AD blocks and two PT blocks.
C10_Witness ==
    /\ pc = "done" /\ Len(ad) = 17 /\ Len(pt) = 17
    /\ trace = ExpectedTrace(17, 17)

---------------------------------------------------------------------------
(* C2: round trip through decrypt-and-verify *)

\* Initialize(Key, Nonce): IV and the little-endian key and nonce halves,
\* 12 rounds, key halves XORed into S3, S4.
DecInitialize(k, n) ==
    LET k0 == LoadLE(SubSeq(k, 1, 8))
        k1 == LoadLE(SubSeq(k, 9, 16))
        S0 == [j \in 0 .. 4 |->
                 CASE j = 0 -> IV
                   [] j = 1 -> k0
                   [] j = 2 -> k1
                   [] j = 3 -> LoadLE(SubSeq(n, 1, 8))
                   [] j = 4 -> LoadLE(SubSeq(n, 9, 16))]
    IN  CHOOSE R \in {[S1 EXCEPT ![3] = XOR(@, k0), ![4] = XOR(@, k1)] :
                      S1 \in {ascon_permutation(S0, 12)}} : TRUE

\* XOR the two little-endian halves of a 16-byte block into S0, S1.
DecXorBlock(S, block) ==
    [S EXCEPT ![0] = XOR(@, LoadLE(SubSeq(block, 1, 8))),
              ![1] = XOR(@, LoadLE(SubSeq(block, 9, 16)))]

\* data, one byte 0x01, zero bytes up to the next multiple of 16 bytes.
DecPad(data) == data \o <<1>> \o [m \in 1 .. 15 - (Len(data) % 16) |-> 0]

RECURSIVE DecAbsorbBlocks(_, _)
\* Every 16-byte block XORed into S0, S1 and followed by 8 rounds.
DecAbsorbBlocks(S, padded) ==
    IF padded = <<>> THEN S
    ELSE CHOOSE R \in {DecAbsorbBlocks(S1, SubSeq(padded, 17, Len(padded))) :
                       S1 \in {ascon_permutation(
                                  DecXorBlock(S, SubSeq(padded, 1, 16)), 8)}} : TRUE

\* Absorb AD: the padded blocks when AD is non-empty, then S4 ^= (1 << 63).
DecAbsorbAD(S, a) ==
    CHOOSE R \in {[S1 EXCEPT ![4] = XOR(@, {63})] :
                  S1 \in {IF a = <<>> THEN S ELSE DecAbsorbBlocks(S, DecPad(a))}} : TRUE

\* S0 || S1, little-endian per half.
DecRate(S) == StoreLE(S[0]) \o StoreLE(S[1])

\* Bytewise XOR of two byte strings of the same length.
DecXorBytes(x, y) ==
    [m \in 1 .. Len(x) |-> ByteVal(XOR(ByteBits(x[m]), ByteBits(y[m])))]

RECURSIVE DecProcessCT(_, _, _)
\* The dual of Absorb PT: a whole ciphertext block gives rate XOR block as
\* plaintext and replaces the rate, followed by 8 rounds; the last, partial
\* block gives its plaintext bytes, whose padding is XORed into the rate.
\* The result is <<State, plaintext>>.
DecProcessCT(S, ct, out) ==
    IF Len(ct) >= 16
    THEN LET block == SubSeq(ct, 1, 16)
         IN  CHOOSE R \in {DecProcessCT(S1, SubSeq(ct, 17, Len(ct)),
                                        out \o DecXorBytes(DecRate(S), block)) :
                           S1 \in {ascon_permutation(
                                      [S EXCEPT ![0] = LoadLE(SubSeq(block, 1, 8)),
                                                ![1] = LoadLE(SubSeq(block, 9, 16))],
                                      8)}} : TRUE
    ELSE LET last == DecXorBytes(SubSeq(DecRate(S), 1, Len(ct)), ct)
         IN  <<DecXorBlock(S, DecPad(last)), out \o last>>

\* Finalize(State, Key): key halves into S2, S3, 12 rounds, tag = S3 ^ key
\* half || S4 ^ key half, little-endian per half.
DecFinalize(S, k) ==
    LET k0 == LoadLE(SubSeq(k, 1, 8))
        k1 == LoadLE(SubSeq(k, 9, 16))
    IN  CHOOSE R \in {StoreLE(XOR(S1[3], k0)) \o StoreLE(XOR(S1[4], k1)) :
                      S1 \in {ascon_permutation(
                                 [S EXCEPT ![2] = XOR(@, k0), ![3] = XOR(@, k1)],
                                 12)}} : TRUE

\* Decrypt-and-verify(Key, Nonce, AD, CT, Tag): the plaintext only when the
\* recomputed tag equals the given one.
Decrypt(k, n, a, ct, tag) ==
    IF Len(k) # 16 \/ Len(n) # 16 \/ Len(tag) # 16
    THEN <<"InputSizeError", <<>>>>
    ELSE CHOOSE R \in {IF DecFinalize(r[1], k) = tag
                       THEN <<"Ok", r[2]>>
                       ELSE <<"AuthenticationFailure", <<>>>> :
                       r \in {DecProcessCT(DecAbsorbAD(DecInitialize(k, n), a),
                                           ct, <<>>)}} : TRUE

\* C2: decrypting what encrypt returned, under the same Key, Nonce and AD,
\* succeeds and returns exactly PT.
C2_RoundTrip ==
    (pc = "done" /\ Len(key) = 16 /\ Len(nonce) = 16) =>
        Decrypt(key, nonce, ad, Join(C), T) = <<"Ok", pt>>

---------------------------------------------------------------------------
(* C11: the capacity is never written by data absorption *)

\* A step of process_associated_data or process_plaintext other than a round
\* of ascon_permutation.
DataStep == pc \in {"ad", "ad_loop", "pt", "pt_loop"}

\* A step that XORs an AD or PT block into the state.
AbsorbStep == (pc = "ad_loop" /\ pc' = "perm") \/ (pc = "pt_loop" /\ pc' # pc)

\* C11: a step that XORs an AD or PT block into the state changes S0 and S1
\* only; in process_associated_data and process_plaintext S2 and S3 change in
\* rounds of the permutation only, and S4 in those and in the
\* domain-separation step only.
C11_CapacityUntouched ==
    [][/\ AbsorbStep =>
             (DOMAIN State' = 0 .. 4 /\ \A j \in 2 .. 4 : State'[j] = State[j])
       /\ DataStep =>
             /\ State'[2] = State[2]
             /\ State'[3] = State[3]
             /\ State'[4] # State[4] => ADReturns]_vars

\* Both blocks of a 17..31-byte AD have been XORed into the state.
C11_Witness ==
    /\ pc = "perm" /\ i = 0 /\ ret = "ad_loop"
    /\ Len(A_blocks) = 2 /\ a_idx = 3
    /\ State[0] # {} /\ State[2] # {}

---------------------------------------------------------------------------
(* C12: state well-formedness *)

\* A list of exactly five integers, each in 0 .. 2^64 - 1.
WellFormed(S) == DOMAIN S = 0 .. 4 /\ \A j \in 0 .. 4 : S[j] \subseteq MASK64

\* C12: at every point of the call (after the state is loaded, after every
\* round, after every absorption, after domain separation, after the key
\* XORs of ascon_initialize and finalize) the state is five integers in
\* 0 .. 2^64 - 1, whatever the width of K and N.
C12_StateWellFormed == WellFormed(State)

\* After a round of the finalization permutation of a call whose key integer
\* is wider than 128 bits and whose AD and PT were both absorbed.
C12_Witness ==
    /\ pc = "perm" /\ ret = "tag" /\ i >= 1
    /\ \E b \in K : b >= 128
    /\ Len(A_blocks) = 2 /\ Len(P_blocks) = 2
    /\ WellFormed(State) /\ State # ZeroState

---------------------------------------------------------------------------
(* C13: the S-box, applied by the substitution layer to states whose columns
   hold chosen 5-bit inputs *)

\* Bit j (0..4) of the 5-bit value x, x0 being the most significant bit.
FiveBit(x, j) == (x \div Pow2(4 - j)) % 2

\* Columns that receive the input under test, and the values given to every
\* other column.
SboxCols == {0, 31, 63}

SboxBackgrounds == {0, 10, 31}

\* The state whose column k holds x and whose other columns hold y.
ColumnState(x, k, y) ==
    [j \in 0 .. 4 |-> {c \in MASK64 : FiveBit(IF c = k THEN x ELSE y, j) = 1}]

SboxInit ==
    /\ \E x \in 0 .. 31 : \E k \in SboxCols : \E y \in SboxBackgrounds :
          State = ColumnState(x, k, y)
    /\ pc = "sbox"
    /\ key = KATKey /\ nonce = KATNonce /\ ad = <<>> /\ pt = <<>>
    /\ K = {} /\ N = {}
    /\ A_bits = <<>> /\ P_bits = <<>>
    /\ rounds = 0 /\ i = 0 /\ ret = ""
    /\ consts = <<>>
    /\ A_blocks = <<>> /\ a_idx = 0
    /\ P_blocks = <<>> /\ p_idx = 0 /\ l = 0
    /\ last_block_padded = <<>>
    /\ C = <<>> /\ T = <<>>
    /\ trace = <<>>

\* The S-box layer of one round of ascon_permutation.
SboxStep ==
    /\ pc = "sbox"
    /\ State' = SboxLayer(State)
    /\ pc' = "sbox_done"
    /\ UNCHANGED <<key, nonce, ad, pt, K, N, A_bits, P_bits, rounds, i, ret,
                   consts, A_blocks, a_idx, P_blocks, p_idx, l,
                   last_block_padded, C, T, trace>>

SboxNext == SboxStep

SboxSpec == SboxInit /\ [][SboxNext]_vars

\* The Ascon S-box table 04 0b 1f 14 1a 15 09 02 1b 05 08 12 1d 03 06 1c
\* 1e 13 07 0e 00 0d 11 18 10 0c 01 19 16 0a 0f 17, indexed by input + 1.
SBOX == <<4, 11, 31, 20, 26, 21, 9, 2, 27, 5, 8, 18, 29, 3, 6, 28,
          30, 19, 7, 14, 0, 13, 17, 24, 16, 12, 1, 25, 22, 10, 15, 23>>

\* Five bits x0..x4 (indexed 0..4) read as a value, x0 most significant.
FiveBitValue(X) == 16 * X[0] + 8 * X[1] + 4 * X[2] + 2 * X[3] + X[4]

\* Column k of a state read as a 5-bit value, S0 most significant.
ColumnValue(S, k) == FiveBitValue([j \in 0 .. 4 |-> Bit(S[j], k)])

\* s_box_compute as a map on 5-bit values.
SboxValue(x) == FiveBitValue(s_box_compute([j \in 0 .. 4 |-> FiveBit(x, j)]))

\* C13: s_box_compute maps every 5-bit input to its table entry and is a
\* bijection on 0..31, and the substitution layer puts into column k of the
\* state the table entry of what column k held, whatever the other columns
\* hold.
C13_SboxTable ==
    [][pc = "sbox" =>
         /\ \A k \in MASK64 :
               /\ ColumnValue(State', k) = SBOX[ColumnValue(State, k) + 1]
               /\ SboxValue(ColumnValue(State, k)) = SBOX[ColumnValue(State, k) + 1]
         /\ {SboxValue(x) : x \in 0 .. 31} = 0 .. 31
         /\ \A j \in 0 .. 4 : State'[j] \subseteq MASK64]_vars

\* The layer has mapped input 0x1f in column 63 to 0x17 and input 0x00 in
\* every other column to 0x04.
C13_Witness ==
    /\ pc = "sbox_done"
    /\ ColumnValue(State, 63) = 23
    /\ \A k \in 0 .. 62 : ColumnValue(State, k) = 4

---------------------------------------------------------------------------
(* C14: keystream / prefix property of the ciphertext *)

\* ascon_initialize(K, N) as a function of its arguments.
ascon_initialize(k, n) ==
    CHOOSE R \in {[S1 EXCEPT ![3] = XOR(@, Upper64(k)), ![4] = XOR(@, Lower64(k))] :
                  S1 \in {ascon_permutation(
                             [j \in 0 .. 4 |->
                                CASE j = 0 -> IV
                                  [] j = 1 -> Upper64(k)
                                  [] j = 2 -> Lower64(k)
                                  [] j = 3 -> Upper64(n)
                                  [] j = 4 -> Lower64(n)], 12)}} : TRUE

\* State[0] ^= upper 64 bits of the block, State[1] ^= its lower 64 bits.
XorBlock(S, block) ==
    [S EXCEPT ![0] = XOR(@, Upper64(int_base2(block))),
              ![1] = XOR(@, Lower64(int_base2(block)))]

RECURSIVE AbsorbADFrom(_, _, _)
\* process_associated_data's loop from block idx on.
AbsorbADFrom(S, blocks, idx) ==
    IF idx > Len(blocks) THEN S
    ELSE CHOOSE R \in {AbsorbADFrom(S1, blocks, idx + 1) :
                       S1 \in {ascon_permutation(XorBlock(S, blocks[idx]), 8)}} : TRUE

\* process_associated_data(State, A) as a function of its arguments.
process_associated_data(S, A) ==
    IF Len(A) = 0 THEN [S EXCEPT ![4] = XOR(@, DomSepBit)]
    ELSE CHOOSE R \in {[S1 EXCEPT ![4] = XOR(@, DomSepBit)] :
                       S1 \in {AbsorbADFrom(S,
                                  [parse_input(A, 128) EXCEPT
                                     ![Len(parse_input(A, 128))] = pad(@, 128)],
                                  1)}} : TRUE

RECURSIVE ProcessPTFrom(_, _, _, _)
\* process_plaintext's loop from block idx on, then the last block; the
\* result is <<State, C>>.
ProcessPTFrom(S, blocks, idx, out) ==
    IF idx <= FullBlockCount(blocks)
    THEN CHOOSE R \in {ProcessPTFrom(ascon_permutation(S1, 8), blocks, idx + 1,
                                     Append(out, to_bytes_big(ct_int_of(S1), 16))) :
                       S1 \in {XorBlock(S, blocks[idx])}} : TRUE
    ELSE CHOOSE R \in {<<S1,
                         IF Len(blocks[Len(blocks)]) > 0
                         THEN Append(out,
                                     SubSeq(to_bytes_big(ct_int_of(S1), 16), 1,
                                            last_len_bytes_of(Len(blocks[Len(blocks)]))))
                         ELSE out>> :
                       S1 \in {XorBlock(S, pad(blocks[Len(blocks)], 128))}} : TRUE

\* process_plaintext(State, P) as a function of its arguments.
process_plaintext(S, P) ==
    CHOOSE R \in {ProcessPTFrom(S, blocks, 1, <<>>) :
                  blocks \in {parse_input(P, 128)}} : TRUE

\* finalize(State, K) as a function of its arguments.
finalize(S, k) ==
    CHOOSE R \in {to_bytes_big(Shl(XOR(S1[3], TagKeyUpper(k)), 64)
                                 \cup XOR(S1[4], Lower64(k)), 16) :
                  S1 \in {ascon_permutation(
                             [S EXCEPT ![2] = XOR(@, Upper64(k)),
                                       ![3] = XOR(@, Lower64(k))], 12)}} : TRUE

\* The plaintext p changed in every byte from position j on.
ChangedFrom(p, j) == [m \in 1 .. Len(p) |-> IF m < j THEN p[m] ELSE 255 - p[m]]

\* Positions at which the second plaintext starts to differ.
DiffPositions(p) == {1, 16, 17, Len(p)} \cap (1 .. Len(p))

\* Bytewise XOR difference of two byte strings at position m.
XorDiff(x, y, m) == XOR(ByteBits(x[m]), ByteBits(y[m]))

\* The ciphertext of p2 against the ciphertext c1 of p1, p2 differing from
\* p1 first at byte j: same length, the same bytes before the block of j,
\* and within that block the XOR difference of the plaintexts.
PrefixAndDiff(p1, c1, p2, c2, j) ==
    LET d == (j - 1) \div 16
    IN  /\ Len(c2) = Len(c1)
        /\ SubSeq(c2, 1, 16 * d) = SubSeq(c1, 1, 16 * d)
        /\ \A m \in (16 * d + 1) .. (16 * d + 16) :
              m <= Len(p1) => XorDiff(c1, c2, m) = XorDiff(p1, p2, m)

\* The rate S0 || S1 of a state as 16 bytes.
RateBytes(S) == to_bytes_big(Shl(S[0], 64) \cup S[1], 16)

\* A step of process_plaintext that emits a ciphertext block: each emitted
\* byte XOR the plaintext byte at the same offset is the rate byte of the
\* state the step started from.
KeystreamStep ==
    (pc = "pt_loop" /\ Len(C') = Len(C) + 1) =>
        \A blk \in {C'[Len(C')]} :
        \A rate \in {RateBytes(State)} :
        \A m \in 1 .. Len(blk) :
            XOR(ByteBits(blk[m]), ByteBits(pt[16 * (p_idx - 1) + m])) = ByteBits(rate[m])

\* At the return: the outputs are those of the functions composed, and for
\* the same K, N and AD a plaintext of the same length that agrees with PT
\* on its first 16 * d bytes gets a ciphertext that agrees on the first
\* 16 * d bytes and, in the first block where the plaintexts differ, differs
\* by the XOR difference of the plaintexts.
PrefixAtReturn ==
    pc = "done" =>
        \A S_pt \in {process_associated_data(ascon_initialize(K, N), A_bits)} :
        \A r1 \in {process_plaintext(S_pt, P_bits)} :
            /\ C = r1[2]
            /\ T = finalize(r1[1], K)
            /\ \A j \in DiffPositions(pt) :
                  \A p2 \in {ChangedFrom(pt, j)} :
                  \A c1 \in {Join(C)} :
                  \A r2 \in {process_plaintext(S_pt, bytes_to_bits(p2))} :
                  \A c2 \in {Join(r2[2])} :
                      PrefixAndDiff(pt, c1, p2, c2, j)

\* C14: every emitted ciphertext byte is the plaintext byte XOR a byte of the
\* rate as it stood before the block was absorbed, and two plaintexts of
\* equal length that agree on their first 16 * d bytes give, for the same K,
\* N and AD, ciphertexts that agree on their first 16 * d bytes and whose XOR
\* difference in the first differing block is that of the plaintexts.
C14_KeystreamPrefix == [][KeystreamStep]_vars /\ []PrefixAtReturn

\* A 17-byte plaintext and one that differs in its last byte only: the
\* first 16 ciphertext bytes are the same, the 17th is not.
C14_Witness ==
    /\ pc = "done" /\ Len(pt) = 17 /\ key = KATKey /\ nonce = KATNonce /\ ad = <<>>
    /\ \A r2 \in {process_plaintext(
                    process_associated_data(ascon_initialize(K, N), A_bits),
                    bytes_to_bits(ChangedFrom(pt, 17)))} :
       \A c2 \in {Join(r2[2])} :
          /\ SubSeq(c2, 1, 16) = SubSeq(Join(C), 1, 16)
          /\ c2[17] # Join(C)[17]

============================================================================
